---------------------------- MODULE Spec2Model ----------------------------
(***************************************************************************)
(* A model of the cubipods bytecode interpreter: the hex lexer, the opcode *)
(* decoder, the 256-bit word type, the linked-list stack, the byte memory, *)
(* the storage map, the trace recorder and the fetch-decode-execute loop   *)
(* of Vm::run.                                                             *)
(*                                                                         *)
(* Word geometry is scaled so that the arithmetic stays inside the         *)
(* model checker's integers: a word has WordBytes bytes (32 in the         *)
(* source), the u128 window of the arithmetic is its low half (bytes       *)
(* 16..32 in the source), the usize window of a memory location is its low *)
(* quarter (bytes 24..32), and the u32 exponent of pow is a quarter of the *)
(* u128 window's bits.  Every ratio of the source is kept.                 *)
(***************************************************************************)
EXTENDS Integers, Sequences, FiniteSets, TLC

VARIABLES
    lexer,            \* Vm.lexer: bytecode, position, read_position, ch
    stack,            \* Vm.stack: head (linked nodes, top first), length
    memory,           \* Vm.memory.heap
    storage,          \* Vm.storage.storage (set of <<slot, value>> pairs)
    history,          \* Vm.history.registry
    verbose,          \* Vm.verbose
    status,           \* Ready, Running, Halted, Faulted, Aborted
    err,              \* the error run() returned, or the panic that aborted it
    overflow_checks,  \* build profile: TRUE = debug (overflow panics), FALSE = release (wraps)
    last              \* what the last operation did (its name, operands, outcome and pre-state)

vars == <<lexer, stack, memory, storage, history, verbose, status, err,
          overflow_checks, last>>

-----------------------------------------------------------------------------
(* Bounds of the model *)

WordBytes == 4        \* bytes of a word (scaled; 32 in the source)
MaxOps == 2           \* free instructions after the pushes of a generated program
MaxPush == 2          \* leading PUSH instructions of a generated program
ShallowDepth == 3     \* the stack driver pops, dups and swaps at this depth or below, and near the limit
MaxPast == 1          \* characters past the end of the text that a repeated run may move the cursor
MaxChars == 4         \* characters of a text given to the lexer on its own

(* Program constants *)

STACK_SIZE_LIMIT == 1024

-----------------------------------------------------------------------------
(* Small helpers *)

Min(a, b) == IF a < b THEN a ELSE b

RECURSIVE Pow2(_)
Pow2(n) == IF n = 0 THEN 1 ELSE 2 * Pow2(n - 1)

RECURSIVE Repeat(_, _)
Repeat(x, n) == IF n = 0 THEN <<>> ELSE <<x>> \o Repeat(x, n - 1)

RECURSIVE Flatten(_)
Flatten(ss) == IF ss = <<>> THEN <<>> ELSE Head(ss) \o Flatten(Tail(ss))

SeqsUpTo(S, n) == UNION { [1..k -> S] : k \in 0..n }

Ok(fields) == [ok |-> TRUE, abort |-> FALSE, err |-> "none"] @@ fields
Err(e, fields) == [ok |-> FALSE, abort |-> FALSE, err |-> e] @@ fields
Panic(e, fields) == [ok |-> FALSE, abort |-> TRUE, err |-> e] @@ fields

-----------------------------------------------------------------------------
(* Characters of a program text, each a string.  The sixteen hex digits are *)
(* themselves (upper and lower case are not told apart); every other class   *)
(* of character has one representative.                                       *)

HexChars == <<"0", "1", "2", "3", "4", "5", "6", "7",
              "8", "9", "a", "b", "c", "d", "e", "f">>
HexDigits == { HexChars[i] : i \in 1..16 }
WS == " "        \* a whitespace character
NONHEX == "g"    \* an ASCII character that is no hex digit
CX == "x"        \* the letter of the prefix "0x"
NUL == "NUL"     \* '\0': the default of Lexer.ch and the end-of-input marker
MB == "MB"       \* one byte of a multi-byte (non-ASCII) character

HexVal(c) == CHOOSE v \in 0..15 : HexChars[v + 1] = c
HexChar(v) == HexChars[v + 1]

is_whitespace(c) == c = WS
is_ascii_hexdigit(c) == c \in HexDigits

-----------------------------------------------------------------------------
(* Lexer (src/src/lexer.rs) *)

RECURSIVE trim_start(_)
trim_start(s) ==
    IF s # <<>> /\ is_whitespace(Head(s)) THEN trim_start(Tail(s)) ELSE s

RECURSIVE trim_end(_)
trim_end(s) ==
    IF s # <<>> /\ is_whitespace(s[Len(s)])
    THEN trim_end(SubSeq(s, 1, Len(s) - 1))
    ELSE s

trim(s) == trim_end(trim_start(s))

starts_with_0x(s) == Len(s) >= 2 /\ s[1] = "0" /\ s[2] = CX

\* Lexer::new: the prefix is stripped and the rest trimmed only when the text
\* starts with "0x"; any other text is taken as it is.  It never fails.
Lexer_new(text) ==
    [bytecode |-> IF starts_with_0x(text)
                  THEN trim(SubSeq(text, 3, Len(text)))
                  ELSE text,
     position |-> 0,
     read_position |-> 0,
     ch |-> NUL]

\* Lexer::read_char.  The one-byte slice bytecode[idx..idx+1] panics when idx
\* or idx+1 is inside a multi-byte character.
read_char(lx) ==
    LET past == lx.read_position >= Len(lx.bytecode)
        c == IF past THEN NUL ELSE lx.bytecode[lx.read_position + 1]
    IN  IF ~past /\ c = MB
        THEN Panic("NotCharBoundary", [lexer |-> lx])
        ELSE Ok([lexer |-> [lx EXCEPT !.ch = c,
                                      !.position = lx.read_position,
                                      !.read_position = lx.read_position + 1]])

\* Classify without the read_char that follows a token.
Classify_keeping_cursor(first_nibble, r1, r2) ==
    IF is_whitespace(first_nibble) \/ is_whitespace(r1.lexer.ch)
    THEN Err("HasWhitespace", [lexer |-> r1.lexer, token |-> <<>>])
    ELSE IF first_nibble = NUL \/ r1.lexer.ch = NUL
    THEN Err("EmptyChar", [lexer |-> r1.lexer, token |-> <<>>])
    ELSE IF ~is_ascii_hexdigit(first_nibble) \/ ~is_ascii_hexdigit(r1.lexer.ch)
    THEN Err("InvalidNibble", [lexer |-> r1.lexer, token |-> <<>>])
    ELSE Ok([lexer |-> r1.lexer, token |-> <<first_nibble, r1.lexer.ch>>])

\* Lexer::next_byte: the character at the cursor and the next one are
\* classified; r1 and r2 are its two read_char calls.
Classify(first_nibble, r1, r2) ==
    IF is_whitespace(first_nibble) \/ is_whitespace(r1.lexer.ch)
    THEN Err("HasWhitespace", [lexer |-> r1.lexer, token |-> <<>>])
    ELSE IF first_nibble = NUL \/ r1.lexer.ch = NUL
    THEN Err("EmptyChar", [lexer |-> r1.lexer, token |-> <<>>])
    ELSE IF ~is_ascii_hexdigit(first_nibble) \/ ~is_ascii_hexdigit(r1.lexer.ch)
    THEN Err("InvalidNibble", [lexer |-> r1.lexer, token |-> <<>>])
    ELSE IF r2.abort THEN Panic(r2.err, [lexer |-> r1.lexer, token |-> <<>>])
    ELSE Ok([lexer |-> r2.lexer, token |-> <<first_nibble, r1.lexer.ch>>])

SecondNibble(lx, r1) ==
    IF r1.abort THEN Panic(r1.err, [lexer |-> lx, token |-> <<>>])
    ELSE Classify(lx.ch, r1, read_char(r1.lexer))

next_byte(lx) == SecondNibble(lx, read_char(lx))

-----------------------------------------------------------------------------
(* Decoder (src/src/instruction.rs) *)

Instr(op, size) == [op |-> op, size |-> size]
NoInstr == Instr("none", 0)

FixedOpcodes ==
    (0 :> "STOP") @@ (1 :> "ADD") @@ (2 :> "MUL") @@ (3 :> "SUB") @@
    (4 :> "DIV") @@ (6 :> "MOD") @@ (10 :> "EXP") @@ (16 :> "LT") @@
    (17 :> "GT") @@ (20 :> "EQ") @@ (21 :> "ISZERO") @@ (22 :> "AND") @@
    (23 :> "OR") @@ (24 :> "XOR") @@ (25 :> "NOT") @@ (26 :> "BYTE") @@
    (32 :> "KECCAK256") @@ (80 :> "POP") @@ (81 :> "MLOAD") @@
    (82 :> "MSTORE") @@ (84 :> "SLOAD") @@ (85 :> "SSTORE")

\* InstructionType::from_str with the PUSH sizes counted from 0x60.
InstructionType_from_str_push_from_0x60(s) ==
    LET tmp == 16 * HexVal(s[1]) + HexVal(s[2])
    IN  IF tmp \in DOMAIN FixedOpcodes
        THEN Ok([instruction |-> Instr(FixedOpcodes[tmp], 0), literal |-> <<>>])
        ELSE IF tmp >= 95 /\ tmp <= 127
        THEN Ok([instruction |-> Instr("PUSH", tmp % 96), literal |-> <<>>])
        ELSE IF tmp >= 128 /\ tmp <= 143
        THEN Ok([instruction |-> Instr("DUP", (tmp % 128) + 1), literal |-> <<>>])
        ELSE IF tmp >= 144 /\ tmp <= 159
        THEN Ok([instruction |-> Instr("SWAP", (tmp % 144) + 1), literal |-> <<>>])
        ELSE Err("InvalidInstruction", [instruction |-> NoInstr, literal |-> s])

\* InstructionType::from_str with the DUP offsets counted from 0.
InstructionType_from_str_dup_from_0(s) ==
    LET tmp == 16 * HexVal(s[1]) + HexVal(s[2])
    IN  IF tmp \in DOMAIN FixedOpcodes
        THEN Ok([instruction |-> Instr(FixedOpcodes[tmp], 0), literal |-> <<>>])
        ELSE IF tmp >= 95 /\ tmp <= 127
        THEN Ok([instruction |-> Instr("PUSH", tmp % 95), literal |-> <<>>])
        ELSE IF tmp >= 128 /\ tmp <= 143
        THEN Ok([instruction |-> Instr("DUP", tmp % 128), literal |-> <<>>])
        ELSE IF tmp >= 144 /\ tmp <= 159
        THEN Ok([instruction |-> Instr("SWAP", (tmp % 144) + 1), literal |-> <<>>])
        ELSE Err("InvalidInstruction", [instruction |-> NoInstr, literal |-> s])

\* InstructionType::from_str on a two-character token of hex digits.
InstructionType_from_str(s) ==
    LET tmp == 16 * HexVal(s[1]) + HexVal(s[2])
    IN  IF tmp \in DOMAIN FixedOpcodes
        THEN Ok([instruction |-> Instr(FixedOpcodes[tmp], 0), literal |-> <<>>])
        ELSE IF tmp >= 95 /\ tmp <= 127
        THEN Ok([instruction |-> Instr("PUSH", tmp % 95), literal |-> <<>>])
        ELSE IF tmp >= 128 /\ tmp <= 143
        THEN Ok([instruction |-> Instr("DUP", (tmp % 128) + 1), literal |-> <<>>])
        ELSE IF tmp >= 144 /\ tmp <= 159
        THEN Ok([instruction |-> Instr("SWAP", (tmp % 144) + 1), literal |-> <<>>])
        ELSE Err("InvalidInstruction", [instruction |-> NoInstr, literal |-> s])

-----------------------------------------------------------------------------
(* Word type Bytes32 (src/src/utils/bytes32.rs): a sequence of WordBytes   *)
(* bytes, most significant first.  A stack item is a string of hex digits. *)

U128Bytes == WordBytes \div 2            \* bytes 16..32 of the 32
USizeBytes == WordBytes \div 4           \* bytes 24..32 of the 32
U128Modulus == Pow2(8 * U128Bytes)       \* 2^128 in the source
U32Modulus == Pow2((8 * U128Bytes) \div 4)   \* 2^32 in the source
USizeModulus == Pow2(8 * USizeBytes)     \* 2^64 in the source

Zeros(n) == [i \in 1..n |-> 0]

RECURSIVE FromBE(_)
FromBE(bs) == IF bs = <<>> THEN 0
              ELSE 256 * FromBE(SubSeq(bs, 1, Len(bs) - 1)) + bs[Len(bs)]

RECURSIVE ToBE(_, _)
ToBE(n, k) == IF k = 0 THEN <<>> ELSE ToBE(n \div 256, k - 1) \o <<n % 256>>

LowBytes(w, k) == SubSeq(w, Len(w) - k + 1, Len(w))

RECURSIVE hex_encode(_)
hex_encode(bs) ==
    IF bs = <<>> THEN <<>>
    ELSE <<HexChar(Head(bs) \div 16), HexChar(Head(bs) % 16)>> \o hex_encode(Tail(bs))

RECURSIVE hex_decode_pairs(_)
hex_decode_pairs(s) ==
    IF s = <<>> THEN <<>>
    ELSE <<16 * HexVal(s[1]) + HexVal(s[2])>> \o hex_decode_pairs(Tail(Tail(s)))

\* str::trim_start_matches("0x"): every leading repetition of the prefix
\* is removed.
RECURSIVE trim_start_matches_0x(_)
trim_start_matches_0x(s) ==
    IF starts_with_0x(s) THEN trim_start_matches_0x(SubSeq(s, 3, Len(s))) ELSE s

\* Bytes32::from_str with the decoded bytes copied to the start of the word.
Bytes32_from_str_left_aligned(str) ==
    LET s == trim_start_matches_0x(str)
    IN  IF Len(s) % 2 # 0 \/ \E i \in 1..Len(s) : ~is_ascii_hexdigit(s[i])
        THEN Err("InvalidStr", [word |-> Zeros(WordBytes)])
        ELSE IF Len(s) \div 2 > WordBytes
        THEN Panic("SliceIndex", [word |-> Zeros(WordBytes)])
        ELSE Ok([word |-> hex_decode_pairs(s) \o Zeros(WordBytes - Len(s) \div 2)])

\* Bytes32::from_str: hex::decode rejects a string with an odd number of
\* digits; the decoded bytes are right-aligned.  More than 32 bytes panic.
Bytes32_from_str(str) ==
    LET s == trim_start_matches_0x(str)
    IN  IF Len(s) % 2 # 0 \/ \E i \in 1..Len(s) : ~is_ascii_hexdigit(s[i])
        THEN Err("InvalidStr", [word |-> Zeros(WordBytes)])
        ELSE IF Len(s) \div 2 > WordBytes
        THEN Panic("SliceIndex", [word |-> Zeros(WordBytes)])
        ELSE Ok([word |-> Zeros(WordBytes - Len(s) \div 2) \o hex_decode_pairs(s)])

\* Display / TryInto<String>: hex::encode, always two digits a byte.
Bytes32_to_string(w) == hex_encode(w)

RECURSIVE trim_start_matches_0(_)
trim_start_matches_0(s) ==
    IF s # <<>> /\ Head(s) = "0" THEN trim_start_matches_0(Tail(s)) ELSE s

\* Bytes32::parse_and_trim: the hex string without its leading '0' digits.
parse_and_trim(w) ==
    LET result == trim_start_matches_0(Bytes32_to_string(w))
    IN  IF result = <<>> THEN <<"0">> ELSE result

\* From<u128> / TryInto<u128>, From<i32>, TryInto<usize>, From<bool>, TryInto<bool>
Bytes32_from_u128(n) == Zeros(WordBytes - U128Bytes) \o ToBE(n, U128Bytes)
Bytes32_to_u128(w) == FromBE(LowBytes(w, U128Bytes))
Bytes32_from_i32(n) == ToBE(n, WordBytes)
Bytes32_to_usize(w) == FromBE(LowBytes(w, USizeBytes))
Bytes32_from_bool(b) == Zeros(WordBytes - 1) \o <<IF b THEN 1 ELSE 0>>
Bytes32_to_bool(w) == w[WordBytes] # 0

\* The value of a string of hex digits, for stating results.
RECURSIVE HexValue(_)
HexValue(s) == IF s = <<>> THEN 0
               ELSE 16 * HexValue(SubSeq(s, 1, Len(s) - 1)) + HexVal(s[Len(s)])

\* Native u128 arithmetic.  An overflow panics in a build with overflow
\* checks and wraps in a build without; division by zero always panics.
Native(oc, fits, exact, wrapped) ==
    IF fits THEN Ok([word |-> Bytes32_from_u128(exact)])
    ELSE IF oc THEN Panic("ArithmeticOverflowPanic", [word |-> Zeros(WordBytes)])
    ELSE Ok([word |-> Bytes32_from_u128(wrapped)])

\* a * b modulo 2^128 without leaving the model checker's integers
MulMod(a, b) ==
    LET h == Pow2((8 * U128Bytes) \div 2)
        al == a % h
        ah == a \div h
    IN  (al * b + ((ah * b) % (U128Modulus \div h)) * h) % U128Modulus

MulFits(a, b) == a = 0 \/ b <= (U128Modulus - 1) \div a

RECURSIVE PowMod(_, _)
PowMod(a, e) == IF e = 0 THEN 1 % U128Modulus ELSE MulMod(a, PowMod(a, e - 1))

RECURSIVE PowFits(_, _)
PowFits(a, e) ==
    IF e = 0 THEN TRUE
    ELSE PowFits(a, e - 1) /\ MulFits(a, PowMod(a, e - 1))

Bytes32_add(oc, x, y) ==
    LET a == Bytes32_to_u128(x)
        b == Bytes32_to_u128(y)
    IN  Native(oc, a + b < U128Modulus, a + b, (a + b) % U128Modulus)

Bytes32_mul(oc, x, y) ==
    LET a == Bytes32_to_u128(x)
        b == Bytes32_to_u128(y)
    IN  Native(oc, MulFits(a, b), MulMod(a, b), MulMod(a, b))

Bytes32_sub(oc, x, y) ==
    LET a == Bytes32_to_u128(x)
        b == Bytes32_to_u128(y)
    IN  Native(oc, a >= b, a - b, (a - b + U128Modulus) % U128Modulus)

Bytes32_div(x, y) ==
    LET a == Bytes32_to_u128(x)
        b == Bytes32_to_u128(y)
    IN  IF b = 0 THEN Panic("DivideByZeroPanic", [word |-> Zeros(WordBytes)])
        ELSE Ok([word |-> Bytes32_from_u128(a \div b)])

Bytes32_rem(x, y) ==
    LET a == Bytes32_to_u128(x)
        b == Bytes32_to_u128(y)
    IN  IF b = 0 THEN Panic("RemainderByZeroPanic", [word |-> Zeros(WordBytes)])
        ELSE Ok([word |-> Bytes32_from_u128(a % b)])

\* Pow::pow: u128::pow(a, b as u32), the exponent cut to its low 32 bits.
Bytes32_pow(oc, x, y) ==
    LET a == Bytes32_to_u128(x)
        b == Bytes32_to_u128(y)
        e == b % U32Modulus
    IN  Native(oc, PowFits(a, e), PowMod(a, e), PowMod(a, e))

\* Shr::shr: a shift by the width or more panics with overflow checks and
\* is taken modulo the width without.
Bytes32_shr(oc, x, y) ==
    LET a == Bytes32_to_u128(x)
        b == Bytes32_to_u128(y)
        bits == 8 * U128Bytes
    IN  Native(oc, b < bits, a \div Pow2(b % bits), a \div Pow2(b % bits))

\* PartialOrd: the u128 windows compared.  PartialEq (derived): all bytes.
Bytes32_lt(x, y) == Bytes32_to_u128(x) < Bytes32_to_u128(y)
Bytes32_gt(x, y) == Bytes32_to_u128(x) > Bytes32_to_u128(y)
Bytes32_eq(x, y) == x = y

RECURSIVE BitsOp(_, _, _, _)
BitsOp(op, a, b, n) ==
    IF n = 0 THEN 0
    ELSE LET p == a % 2
             q == b % 2
             r == CASE op = "and" -> IF p = 1 /\ q = 1 THEN 1 ELSE 0
                    [] op = "or" -> IF p = 1 \/ q = 1 THEN 1 ELSE 0
                    [] OTHER -> IF p # q THEN 1 ELSE 0
         IN  r + 2 * BitsOp(op, a \div 2, b \div 2, n - 1)

BytesOp(op, x, y) == [i \in 1..Len(x) |-> BitsOp(op, x[i], y[i], 8)]

\* BitAnd / BitOr / BitXor: on the u128 windows; the high bytes become zero.
Bytes32_bitop(op, x, y) ==
    Zeros(WordBytes - U128Bytes)
        \o BytesOp(op, LowBytes(x, U128Bytes), LowBytes(y, U128Bytes))

\* Not::not goes through bool: the word 1 when the last byte is 0, else 0.
Bytes32_not(x) == Bytes32_from_bool(~Bytes32_to_bool(x))

-----------------------------------------------------------------------------
(* Stack (src/src/stack.rs): a singly linked list of nodes reached from    *)
(* head, and a separately kept length.  head is the sequence of the items  *)
(* of the nodes, the top node first.                                       *)

EmptyStack == [head |-> <<>>, length |-> 0]
NoItem == <<>>

Stack_is_empty(s) == s.head = <<>>
Stack_peek(s) == IF s.head # <<>> THEN Head(s.head) ELSE NoItem

\* Stack::length(), which Vm::pop_first_two_items calls: the length field.
Stack_length(s) == s.length

\* Stack::pop: the index it returns is the literal 1.
Stack_pop(s) ==
    IF s.head # <<>>
    THEN Ok([stack |-> [head |-> Tail(s.head), length |-> s.length - 1],
             index |-> 1, item |-> Head(s.head)])
    ELSE Err("StackUnderflow", [stack |-> s, index |-> 0, item |-> NoItem])

\* Stack_push with the limit test off by one: a full stack still takes an item.
Stack_push_off_by_one(s, item) ==
    IF s.length > STACK_SIZE_LIMIT
    THEN Err("StackOverflow", [stack |-> s, index |-> 0, item |-> NoItem])
    ELSE Ok([stack |-> [head |-> <<item>> \o s.head, length |-> s.length + 1],
             index |-> s.length, item |-> item])

Stack_push(s, item) ==
    IF s.length = STACK_SIZE_LIMIT
    THEN Err("StackOverflow", [stack |-> s, index |-> 0, item |-> NoItem])
    ELSE Ok([stack |-> [head |-> <<item>> \o s.head, length |-> s.length + 1],
             index |-> s.length, item |-> item])

\* The node a walk of `index` links from the top ends at: the walk stays on
\* the last node when the list is shorter.
WalkTo(s, index) == Min(index, Len(s.head) - 1) + 1

\* Stack::dup: head.take() empties the list before the walk, and push links
\* the copy to what head then is, so the copy becomes the only node.
Stack_dup(s, index) ==
    IF s.length <= index
    THEN Err("StackSizeExceeded", [stack |-> s, index |-> 0, item |-> NoItem])
    ELSE IF s.head # <<>>
    THEN LET curr == s.head[WalkTo(s, index)]
             taken == [head |-> <<>>, length |-> s.length]
             dup_index == s.length - 1 - index
             pushed == Stack_push(taken, curr)
         IN  IF pushed.ok
             THEN Ok([stack |-> pushed.stack, index |-> dup_index, item |-> curr])
             ELSE Err(pushed.err, [stack |-> taken, index |-> 0, item |-> NoItem])
    ELSE Err("StackIsEmpty", [stack |-> s, index |-> 0, item |-> NoItem])

\* Stack::swap testing the index against the length before it tests it
\* for 0.
Stack_swap_size_first(s, index, ub) ==
    IF s.length <= index
    THEN Err("StackSizeExceeded", [stack |-> s, indexes |-> <<>>, items |-> <<>>])
    ELSE IF index = 0
    THEN Err("WrongIndex", [stack |-> s, indexes |-> <<>>, items |-> <<>>])
    ELSE IF Stack_is_empty(s)
    THEN Err("StackIsEmpty", [stack |-> s, indexes |-> <<>>, items |-> <<>>])
    ELSE LET at == WalkTo(s, index)
             head_item == s.head[1]
             curr_item == s.head[at]
             head_index == s.length - 1
             swapped == [s.head EXCEPT ![1] = curr_item, ![at] = head_item]
         IN  IF at = 1 /\ ub = "abort"
             THEN Panic("DoubleFree", [stack |-> s, indexes |-> <<>>, items |-> <<>>])
             ELSE Ok([stack |-> [s EXCEPT !.head = swapped],
                      indexes |-> <<head_index, head_index - index>>,
                      items |-> <<head_item, curr_item>>])

\* Stack::swap.  When the walk ends on the head node itself, ptr::read makes
\* two owners of one String and both are dropped: undefined behaviour, here
\* the choice ub between an abort and going on.
Stack_swap(s, index, ub) ==
    IF index = 0
    THEN Err("WrongIndex", [stack |-> s, indexes |-> <<>>, items |-> <<>>])
    ELSE IF s.length <= index
    THEN Err("StackSizeExceeded", [stack |-> s, indexes |-> <<>>, items |-> <<>>])
    ELSE IF Stack_is_empty(s)
    THEN Err("StackIsEmpty", [stack |-> s, indexes |-> <<>>, items |-> <<>>])
    ELSE LET at == WalkTo(s, index)
             head_item == s.head[1]
             curr_item == s.head[at]
             head_index == s.length - 1
             swapped == [s.head EXCEPT ![1] = curr_item, ![at] = head_item]
         IN  IF at = 1 /\ ub = "abort"
             THEN Panic("DoubleFree", [stack |-> s, indexes |-> <<>>, items |-> <<>>])
             ELSE Ok([stack |-> [s EXCEPT !.head = swapped],
                      indexes |-> <<head_index, head_index - index>>,
                      items |-> <<head_item, curr_item>>])

-----------------------------------------------------------------------------
(* Memory (src/src/memory.rs): heap is the byte vector. *)

\* Memory::extend that replaces the heap by the new bytes.
Memory_extend_replacing(heap, size) == Zeros(size)

Memory_extend(heap, size) == heap \o Zeros(size)

\* The WordBytes bytes a raw pointer reads at location: a byte past the end
\* of the heap is not the heap's (undefined behaviour), here junk.
RawRead(heap, location, junk) ==
    [i \in 1..WordBytes |->
        IF location + i <= Len(heap) THEN heap[location + i] ELSE junk]

RawWrite(heap, location, data) ==
    [i \in 1..Len(heap) |->
        IF i > location /\ i <= location + WordBytes THEN data[i - location]
        ELSE heap[i]]

JunkByte(ub) == IF ub = "junk1" THEN 255 ELSE 0

\* location + 32 in usize: panics with overflow checks, wraps without.
ExtendedLocation(location) == (location + WordBytes) % USizeModulus

Memory_mload(oc, heap, location_word, ub) ==
    LET location == Bytes32_to_usize(location_word)
        extended_location == ExtendedLocation(location)
        grown ==
            IF extended_location > Len(heap)
            THEN IF location % WordBytes = 0
                 THEN Memory_extend(heap, extended_location - Len(heap))
                 ELSE Memory_extend(heap, extended_location + (location % WordBytes)
                                              - Len(heap))
            ELSE heap
    IN  IF location + WordBytes >= USizeModulus /\ oc
        THEN Panic("ArithmeticOverflowPanic", [heap |-> heap, word |-> Zeros(WordBytes)])
        ELSE IF location + WordBytes > Len(grown) /\ ub = "abort"
        THEN Panic("OutOfBoundsAccess", [heap |-> grown, word |-> Zeros(WordBytes)])
        ELSE Ok([heap |-> grown, word |-> RawRead(grown, location, JunkByte(ub))])

Memory_mstore(oc, heap, location_word, data, ub) ==
    LET location == Bytes32_to_usize(location_word)
        extended_location == ExtendedLocation(location)
        grown ==
            IF extended_location > Len(heap)
            THEN Memory_extend(heap, extended_location - Len(heap))
            ELSE heap
    IN  IF location + WordBytes >= USizeModulus /\ oc
        THEN Panic("ArithmeticOverflowPanic", [heap |-> heap])
        ELSE IF location + WordBytes > Len(grown) /\ ub = "abort"
        THEN Panic("OutOfBoundsAccess", [heap |-> grown])
        ELSE Ok([heap |-> RawWrite(grown, location, data)])

\* Memory::load_only reads without growing the heap; until is the end of
\* the bytes that its pointer reads.
Memory_load_only(heap, location_word, ub) ==
    LET location == Bytes32_to_usize(location_word)
    IN  IF location + WordBytes > Len(heap) /\ ub = "abort"
        THEN Panic("OutOfBoundsAccess", [heap |-> heap, word |-> Zeros(WordBytes),
                                         until |-> location + WordBytes])
        ELSE Ok([heap |-> heap, word |-> RawRead(heap, location, JunkByte(ub)),
                 until |-> location + WordBytes])

Memory_msize(heap) == Len(heap)

-----------------------------------------------------------------------------
(* Storage (src/src/storage.rs): the map as a function on the written slots. *)

EmptyStorage == [slot \in {} |-> Zeros(WordBytes)]

\* Storage::sstore that keeps the value a slot already has.
Storage_sstore_keeping(st, slot, value) ==
    IF slot \in DOMAIN st THEN st ELSE (slot :> value) @@ st

Storage_sstore(st, slot, value) ==
    [x \in DOMAIN st \cup {slot} |-> IF x = slot THEN value ELSE st[x]]

\* Storage::sload returns an Option.
Storage_sload(st, slot) ==
    IF slot \in DOMAIN st
    THEN [some |-> TRUE, value |-> st[slot]]
    ELSE [some |-> FALSE, value |-> Zeros(WordBytes)]

Storage_size(st) == Cardinality(DOMAIN st)
Storage_is_empty(st) == DOMAIN st = {}

-----------------------------------------------------------------------------
(* History (src/src/utils/history.rs): registry is the sequence of entries; *)
(* the description of an entry is built from fixed text and is never empty. *)

NoWord == <<>>

build_stack(instruction, item_1, index_1, item_2, index_2) ==
    [component |-> "Stack", instruction |-> instruction,
     item_1 |-> item_1, item_1_index |-> index_1,
     item_2 |-> item_2, item_2_index |-> index_2]

build_stack_with_one_item(instruction, item_1, index_1) ==
    [component |-> "Stack", instruction |-> instruction,
     item_1 |-> item_1, item_1_index |-> index_1,
     item_2 |-> NoWord, item_2_index |-> 0]

build_memory(location, value) ==
    [component |-> "Memory", instruction |-> NoInstr,
     item_1 |-> location, item_1_index |-> 0,
     item_2 |-> value, item_2_index |-> 0]

build_storage(slot, value) ==
    [component |-> "Storage", instruction |-> NoInstr,
     item_1 |-> slot, item_1_index |-> 0,
     item_2 |-> value, item_2_index |-> 0]

\* save_on_event putting the entry in front of the registry.
save_on_event_prepending(registry, component) == <<component>> \o registry

save_on_event(registry, component) == Append(registry, component)

-----------------------------------------------------------------------------
(* Engine (src/src/vm.rs).  A Vm value is a record of its fields together *)
(* with how the run stands: status and the error it ended with.           *)

MaxPushSize == 32      \* vm.rs: if size > 32
MaxDupSwapSize == 16   \* vm.rs: if size == 0 || size > 16

NoError == [kind |-> "none", instruction |-> NoInstr, literal |-> <<>>]
MkError(kind, instruction, literal) ==
    [kind |-> kind, instruction |-> instruction, literal |-> literal]

Fault(v, kind) ==
    [v EXCEPT !.status = "Faulted", !.err = MkError(kind, NoInstr, <<>>)]
FaultAt(v, kind, instruction) ==
    [v EXCEPT !.status = "Faulted", !.err = MkError(kind, instruction, <<>>)]
Abort(v, kind) ==
    [v EXCEPT !.status = "Aborted", !.err = MkError(kind, NoInstr, <<>>)]

OneOperand == {"ISZERO", "NOT", "KECCAK256", "POP", "MLOAD", "SLOAD"}
NoOperand == {"PUSH", "DUP", "SWAP"}
TwoOperands == {"ADD", "MUL", "SUB", "DIV", "MOD", "EXP", "LT", "GT", "EQ",
                "AND", "OR", "XOR", "BYTE", "MSTORE", "SSTORE"}

\* Vm::pop_first_item: the emptiness test, the pop, then the parse of the
\* popped string.  v of the result is the Vm after what was done.
ParsedOne(v1, p, w) ==
    IF ~p.ok
    THEN Err(p.err, [v |-> Fault(v1, p.err), index |-> 0, item |-> NoWord])
    ELSE IF w.abort
    THEN Panic(w.err, [v |-> Abort(v1, w.err), index |-> 0, item |-> NoWord])
    ELSE IF ~w.ok
    THEN Err(w.err, [v |-> Fault(v1, w.err), index |-> 0, item |-> NoWord])
    ELSE Ok([v |-> v1, index |-> p.index, item |-> w.word])

PoppedOne(v, p) ==
    ParsedOne([v EXCEPT !.stack = p.stack], p, Bytes32_from_str(p.item))

pop_first_item(v, instruction) ==
    IF Stack_is_empty(v.stack)
    THEN Err("ShallowStack", [v |-> FaultAt(v, "ShallowStack", instruction),
                              index |-> 0, item |-> NoWord])
    ELSE PoppedOne(v, Stack_pop(v.stack))

\* Vm::pop_first_two_items: the length test, two pops, then the two parses.
NoItems == [indexes |-> <<>>, items |-> <<>>]

ParsedTwo(v2, p1, p2, w1, w2) ==
    IF w1.abort THEN Panic(w1.err, [v |-> Abort(v2, w1.err)] @@ NoItems)
    ELSE IF ~w1.ok THEN Err(w1.err, [v |-> Fault(v2, w1.err)] @@ NoItems)
    ELSE IF w2.abort THEN Panic(w2.err, [v |-> Abort(v2, w2.err)] @@ NoItems)
    ELSE IF ~w2.ok THEN Err(w2.err, [v |-> Fault(v2, w2.err)] @@ NoItems)
    ELSE Ok([v |-> v2, indexes |-> <<p1.index, p2.index>>,
             items |-> <<w1.word, w2.word>>])

PoppedSecond(v, p1, p2) ==
    IF ~p2.ok
    THEN Err(p2.err, [v |-> Fault([v EXCEPT !.stack = p2.stack], p2.err)] @@ NoItems)
    ELSE ParsedTwo([v EXCEPT !.stack = p2.stack], p1, p2,
                   Bytes32_from_str(p1.item), Bytes32_from_str(p2.item))

PoppedFirst(v, p1) ==
    IF ~p1.ok
    THEN Err(p1.err, [v |-> Fault(v, p1.err)] @@ NoItems)
    ELSE PoppedSecond(v, p1, Stack_pop(p1.stack))

pop_first_two_items(v, instruction) ==
    IF Stack_length(v.stack) < 2
    THEN Err("ShallowStack", [v |-> FaultAt(v, "ShallowStack", instruction)] @@ NoItems)
    ELSE PoppedFirst(v, Stack_pop(v.stack))

\* The closure build_initials of Vm::run: the operands of the instruction,
\* popped, and the trace entries of the pops when verbose.
TraceOne(instruction, r) ==
    [ok |-> r.ok,
     v |-> IF r.ok /\ r.v.verbose
           THEN [r.v EXCEPT !.history = save_on_event(r.v.history,
                    build_stack_with_one_item(instruction, r.item, r.index))]
           ELSE r.v,
     items |-> <<r.item>>]

TraceStore(instruction, registry, item_1, item_2) ==
    CASE instruction.op = "MSTORE" -> save_on_event(registry, build_memory(item_1, item_2))
      [] instruction.op = "SSTORE" -> save_on_event(registry, build_storage(item_1, item_2))
      [] OTHER -> registry

TraceTwo(instruction, r) ==
    [ok |-> r.ok,
     v |-> IF r.ok /\ r.v.verbose
           THEN [r.v EXCEPT !.history =
                    TraceStore(instruction,
                        save_on_event(r.v.history,
                            build_stack(instruction, r.items[1], r.indexes[1],
                                        r.items[2], r.indexes[2])),
                        r.items[1], r.items[2])]
           ELSE r.v,
     items |-> r.items]

build_initials(v, instruction) ==
    IF instruction.op \in OneOperand
    THEN TraceOne(instruction, pop_first_item(v, instruction))
    ELSE IF instruction.op \in NoOperand
    THEN [ok |-> TRUE, v |-> v, items |-> <<>>]
    ELSE TraceTwo(instruction, pop_first_two_items(v, instruction))

\* self.stack.push(...)?
PushString(v, str) ==
    LET p == Stack_push(v.stack, str)
    IN  IF p.ok THEN [v EXCEPT !.stack = p.stack] ELSE Fault(v, p.err)

\* The push of a computed word, or the abort of the computation.
PushResult(v, r) ==
    IF r.abort THEN Abort(v, r.err) ELSE PushString(v, parse_and_trim(r.word))

\* format!("{:x}", result as u128)
PushBool(v, b) == PushString(v, IF b THEN <<"1">> ELSE <<"0">>)

\* A stand-in for the external Keccak-256: a fixed function of the bytes.
RECURSIVE ByteSum(_, _)
ByteSum(data, k) ==
    IF data = <<>> THEN 0
    ELSE (k * Head(data) + ByteSum(Tail(data), k + 2)) % 251

Keccak256(data) ==
    [i \in 1..WordBytes |-> (ByteSum(data, i) + 17 * i + 29 * Len(data) + 3) % 256]

RECURSIVE TrimLeadingZeroBytes(_)
TrimLeadingZeroBytes(w) ==
    IF w # <<>> /\ Head(w) = 0 THEN TrimLeadingZeroBytes(Tail(w)) ELSE w

\* The BYTE arm of Vm::run.
ByteResult(oc, item_1, item_2) ==
    IF Bytes32_lt(item_1, Bytes32_from_i32(WordBytes))
    THEN LET diff == Bytes32_sub(oc, Bytes32_from_i32(WordBytes - 1), item_1)
             amount == Bytes32_mul(oc, Bytes32_from_i32(8), diff.word)
             shifted == Bytes32_shr(oc, item_2, amount.word)
         IN  IF diff.abort THEN diff
             ELSE IF amount.abort THEN amount
             ELSE IF shifted.abort THEN shifted
             ELSE Ok([word |-> Bytes32_bitop("and", shifted.word, Bytes32_from_i32(255))])
    ELSE Ok([word |-> Bytes32_from_i32(0)])

\* The immediate bytes of PUSH(size): next_byte called size times, the
\* tokens concatenated; the first error ends the run.
RECURSIVE ReadImmediate(_, _, _)
ReadImmediate(lx, size, data) ==
    IF size = 0 THEN Ok([lexer |-> lx, data |-> data])
    ELSE LET r == next_byte(lx)
         IN  IF r.ok THEN ReadImmediate(r.lexer, size - 1, data \o r.token)
             ELSE [ok |-> FALSE, abort |-> r.abort, err |-> r.err,
                   lexer |-> r.lexer, data |-> data]

\* The match on the instruction in Vm::run, after build_initials has popped
\* the operands x (and y).  STOP is handled by the caller.
Execute(v, instruction, items, oc, ub) ==
    LET op == instruction.op
        size == instruction.size
        x == items[1]
        y == items[2]
    IN  CASE op = "ADD" -> PushResult(v, Bytes32_add(oc, x, y))
          [] op = "MUL" -> PushResult(v, Bytes32_mul(oc, x, y))
          [] op = "SUB" -> PushResult(v, Bytes32_sub(oc, x, y))
          [] op = "DIV" -> PushResult(v, Bytes32_div(x, y))
          [] op = "MOD" -> PushResult(v, Bytes32_rem(x, y))
          [] op = "EXP" -> PushResult(v, Bytes32_pow(oc, x, y))
          [] op = "LT" -> PushBool(v, Bytes32_lt(x, y))
          [] op = "GT" -> PushBool(v, Bytes32_gt(x, y))
          [] op = "EQ" -> PushBool(v, Bytes32_eq(x, y))
          [] op = "ISZERO" -> PushBool(v, Bytes32_eq(x, Bytes32_from_i32(0)))
          [] op = "AND" -> PushResult(v, Ok([word |-> Bytes32_bitop("and", x, y)]))
          [] op = "OR" -> PushResult(v, Ok([word |-> Bytes32_bitop("or", x, y)]))
          [] op = "XOR" -> PushResult(v, Ok([word |-> Bytes32_bitop("xor", x, y)]))
          [] op = "NOT" -> PushResult(v, Ok([word |-> Bytes32_not(x)]))
          [] op = "BYTE" -> PushResult(v, ByteResult(oc, x, y))
          [] op = "KECCAK256" ->
                PushString(v, hex_encode(Keccak256(TrimLeadingZeroBytes(x))))
          [] op = "POP" -> v
          [] op = "MLOAD" ->
                LET r == Memory_mload(oc, v.memory, x, ub)
                IN  IF r.abort THEN Abort(v, r.err)
                    ELSE PushString([v EXCEPT !.memory = r.heap],
                                    Bytes32_to_string(r.word))
          [] op = "MSTORE" ->
                LET r == Memory_mstore(oc, v.memory, x, y, ub)
                IN  IF r.abort THEN Abort(v, r.err)
                    ELSE [v EXCEPT !.memory = r.heap]
          [] op = "SLOAD" ->
                LET r == Storage_sload(v.storage, x)
                IN  IF ~r.some THEN Abort(v, "UnwrapOnNone")
                    ELSE PushString(v, Bytes32_to_string(r.value))
          [] op = "SSTORE" -> [v EXCEPT !.storage = Storage_sstore(v.storage, x, y)]
          [] op = "PUSH" ->
                IF size > MaxPushSize THEN FaultAt(v, "IncompatibleSize", instruction)
                ELSE IF size = 0 THEN PushString(v, <<"0">>)
                ELSE LET r == ReadImmediate(v.lexer, size, <<>>)
                         v1 == [v EXCEPT !.lexer = r.lexer]
                     IN  IF r.abort THEN Abort(v1, r.err)
                         ELSE IF ~r.ok THEN Fault(v1, r.err)
                         ELSE PushString(v1, r.data)
          [] op = "DUP" ->
                IF size = 0 \/ size > MaxDupSwapSize
                THEN FaultAt(v, "IncompatibleSize", instruction)
                ELSE LET r == Stack_dup(v.stack, size)
                         v1 == [v EXCEPT !.stack = r.stack]
                     IN  IF r.ok THEN v1 ELSE Fault(v1, r.err)
          [] op = "SWAP" ->
                IF size = 0 \/ size > MaxDupSwapSize
                THEN FaultAt(v, "IncompatibleSize", instruction)
                ELSE LET r == Stack_swap(v.stack, size, ub)
                         v1 == [v EXCEPT !.stack = r.stack]
                     IN  IF r.abort THEN Abort(v1, r.err)
                         ELSE IF r.ok THEN v1 ELSE Fault(v1, r.err)

\* One iteration of the loop 'main of Vm::run: fetch, decode, pop, execute.
AfterPop(instruction, b, oc, ub) ==
    IF ~b.ok THEN b.v ELSE Execute(b.v, instruction, b.items, oc, ub)

\* AfterDecode with a STOP arm that does not leave the loop.
AfterDecode_stop_goes_on(v1, d, oc, ub) ==
    IF ~d.ok
    THEN [v1 EXCEPT !.status = "Faulted", !.err = MkError(d.err, NoInstr, d.literal)]
    ELSE IF d.instruction.op = "STOP" THEN v1
    ELSE AfterPop(d.instruction, build_initials(v1, d.instruction), oc, ub)

AfterDecode(v1, d, oc, ub) ==
    IF ~d.ok
    THEN [v1 EXCEPT !.status = "Faulted", !.err = MkError(d.err, NoInstr, d.literal)]
    ELSE IF d.instruction.op = "STOP" THEN [v1 EXCEPT !.status = "Halted"]
    ELSE AfterPop(d.instruction, build_initials(v1, d.instruction), oc, ub)

AfterFetch(v, f, oc, ub) ==
    IF f.abort THEN Abort([v EXCEPT !.lexer = f.lexer], f.err)
    ELSE IF ~f.ok THEN Fault([v EXCEPT !.lexer = f.lexer], f.err)
    ELSE AfterDecode([v EXCEPT !.lexer = f.lexer],
                     InstructionType_from_str(f.token), oc, ub)

Iteration(v, oc, ub) == AfterFetch(v, next_byte(v.lexer), oc, ub)

\* The instruction the next iteration decodes, when fetch and decode succeed.
FetchedFrom(f) ==
    IF f.ok THEN InstructionType_from_str(f.token).instruction ELSE NoInstr

Fetched(lx) == FetchedFrom(next_byte(lx))

-----------------------------------------------------------------------------
(* Program texts *)

Byte2(n) == <<HexChar(n \div 16), HexChar(n % 16)>>

RECURSIVE HexOfBytes(_)
HexOfBytes(bs) == IF bs = <<>> THEN <<>> ELSE Byte2(Head(bs)) \o HexOfBytes(Tail(bs))

\* PUSHk followed by its k immediate bytes
PushBytes(bs) == Byte2(95 + Len(bs)) \o HexOfBytes(bs)
Push1(n) == PushBytes(<<n>>)

\* The largest value of the arithmetic's window, and the smallest exponent
\* that the cut to u32 changes.
PushMax == PushBytes([i \in 1..U128Bytes |-> 255])
PushBigExp == PushBytes(ToBE(U32Modulus, U128Bytes))

\* The smallest value above the window of the arithmetic and the order.
PushAboveWindow == PushBytes(<<1>> \o Zeros(U128Bytes))

PushTokens == {Push1(0), Push1(1), PushBigExp, PushMax}

\* Every opcode of the table, PUSH0, DUP1, DUP2 and SWAP1.
OpBytes == DOMAIN FixedOpcodes \cup {95, 128, 129, 144}
OpTokens == { Byte2(n) : n \in OpBytes }

\* Endings that are no whole byte of hex digits.
Tails == {<<"1">>, <<WS>>, <<"0", WS>>, <<NONHEX, "0">>, <<"0", CX>>,
          <<MB, MB>>, <<"0", MB, MB>>, <<NUL, "1">>, <<"1", NUL>>,
          Byte2(5), Byte2(255), Byte2(96), Byte2(97) \o Byte2(1),
          Byte2(97) \o Byte2(1) \o <<MB, MB>>}

PushSeqs == { Flatten(ps) : ps \in SeqsUpTo(PushTokens, MaxPush) }
OpSeqs == { Flatten(os) : os \in SeqsUpTo(OpTokens, MaxOps) }

Generated == { ps \o os : ps \in PushSeqs, os \in OpSeqs }

Malformed == { ps \o o \o t : ps \in {<<>>, Push1(1)},
                              o \in {<<>>, Byte2(0), Byte2(80)}, t \in Tails }

\* A text with and without the prefix "0x", with and without whitespace
\* around it.
Decorations(body) ==
    { pre \o body \o post : pre \in {<<>>, <<"0", CX>>, <<WS, "0", CX>>, <<"0", CX, WS>>},
                            post \in {<<>>, <<WS>>} }

Decorated == UNION { Decorations(b) : b \in {<<>>, Push1(1), Push1(1) \o Push1(2) \o Byte2(1)} }

\* Programs of the repository's tests and of the scenarios of its
\* documentation, within the scaled word.
Scenarios ==
    { Push1(20) \o Push1(10) \o Byte2(1),                               \* 6014600a01
      Push1(32) \o Push1(10) \o Push1(20) \o Byte2(1) \o Byte2(1),     \* 6020600a60140101
      Push1(2) \o Push1(20) \o Push1(10) \o Byte2(2) \o Byte2(2),      \* 60026014600a0202
      Push1(10) \o Push1(20) \o Byte2(3),                               \* 600a601403
      Push1(1) \o Push1(1) \o Byte2(1) \o Push1(1) \o Byte2(1),        \* 6001600101600101
      Push1(1) \o Push1(2) \o Push1(3) \o Byte2(145),                   \* 60016002600391
      Push1(1) \o Push1(2) \o Push1(3) \o Byte2(129) \o Byte2(80) \o Byte2(80),
      Push1(32) \o Push1(64) \o Byte2(82) \o Push1(2) \o Push1(1) \o Byte2(85),
                                                                        \* 60206040526002600155
      Push1(2) \o Push1(1) \o Byte2(85) \o Push1(1) \o Byte2(84),
      Push1(7) \o Push1(8) \o Byte2(82) \o Push1(8) \o Byte2(81),
      \* two loads, the second one further on and not word-aligned
      Push1(WordBytes) \o Byte2(81) \o Byte2(80) \o Push1(WordBytes + 2) \o Byte2(81),
      \* comparisons of zero with a value above the window
      PushAboveWindow \o Push1(0) \o Byte2(16),
      Push1(0) \o PushAboveWindow \o Byte2(17),
      PushAboveWindow \o Push1(0) \o Byte2(20),
      PushAboveWindow \o Byte2(21),
      \* the last opcodes of the PUSH, DUP and SWAP ranges
      PushBytes([i \in 1..MaxPushSize |-> 1]),
      Push1(1) \o Byte2(127 + MaxDupSwapSize),
      Push1(1) \o Byte2(143 + MaxDupSwapSize) }

Programs == Generated \cup Malformed \cup Decorated \cup Scenarios

-----------------------------------------------------------------------------
(* The run as a state machine *)

\* The outcomes of an undefined behaviour: the process dies, or it goes on
\* with a foreign byte read as 0x00 or as 0xff.
UBChoices == {"abort", "junk0", "junk1"}

Vm_new(text, vb) ==
    [lexer |-> Lexer_new(text), stack |-> EmptyStack, memory |-> <<>>,
     storage |-> EmptyStorage, history |-> <<>>, verbose |-> vb,
     status |-> "Ready", err |-> NoError]

TheVm ==
    [lexer |-> lexer, stack |-> stack, memory |-> memory, storage |-> storage,
     history |-> history, verbose |-> verbose, status |-> status, err |-> err]

Becomes(v) ==
    /\ lexer' = v.lexer
    /\ stack' = v.stack
    /\ memory' = v.memory
    /\ storage' = v.storage
    /\ history' = v.history
    /\ verbose' = v.verbose
    /\ status' = v.status
    /\ err' = v.err

NoCall == [call |-> "none", instruction |-> NoInstr, arg |-> <<>>,
           outcome |-> "none", ret |-> <<>>, pre |-> Vm_new(<<>>, FALSE)]

Init ==
    \E text \in Programs, vb \in BOOLEAN, oc \in BOOLEAN :
        /\ lexer = Lexer_new(text)
        /\ stack = EmptyStack
        /\ memory = <<>>
        /\ storage = EmptyStorage
        /\ history = <<>>
        /\ verbose = vb
        /\ status = "Ready"
        /\ err = NoError
        /\ overflow_checks = oc
        /\ last = NoCall

\* Vm::run up to its loop: the first read_char.  The engine keeps no record
\* of a run that ended, so run can be called again on a halted or faulted
\* engine; it then reads on from where the cursor is.
Run ==
    /\ status \in {"Ready", "Halted", "Faulted"}
    /\ lexer.read_position <= Len(lexer.bytecode) + MaxPast
    /\ LET r == read_char(lexer)
           v == IF r.abort THEN Abort(TheVm, r.err)
                ELSE [TheVm EXCEPT !.lexer = r.lexer, !.status = "Running",
                                   !.err = NoError]
       IN  /\ Becomes(v)
           /\ last' = [NoCall EXCEPT !.call = "run", !.outcome = v.status,
                                     !.pre = TheVm]
    /\ UNCHANGED overflow_checks

\* The instructions whose code has an undefined behaviour choose its
\* outcome; the others have one outcome.
UBChoicesFor(instruction) ==
    IF instruction.op \in {"SWAP", "MLOAD", "MSTORE"} THEN UBChoices ELSE {"abort"}

\* One iteration of the loop.
Step ==
    /\ status = "Running"
    /\ lexer.ch # NUL
    /\ \E instruction \in {Fetched(lexer)} :
       \E ub \in UBChoicesFor(instruction) :
       \E v \in {Iteration(TheVm, overflow_checks, ub)} :
            /\ Becomes(v)
            /\ last' = [NoCall EXCEPT !.call = "step", !.instruction = instruction,
                                      !.outcome = v.status, !.pre = TheVm]
    /\ UNCHANGED overflow_checks

\* The loop's exit at the end-of-input marker: run returns Ok(()).
Finish ==
    /\ status = "Running"
    /\ lexer.ch = NUL
    /\ Becomes([TheVm EXCEPT !.status = "Halted"])
    /\ last' = [NoCall EXCEPT !.call = "finish", !.outcome = "Halted", !.pre = TheVm]
    /\ UNCHANGED overflow_checks

Next == Run \/ Step \/ Finish

Spec == Init /\ [][Next]_vars

-----------------------------------------------------------------------------
(* The stack on its own: any caller's push, pop, dup and swap on a Stack  *)
(* of strings.  Between a shallow stack and a nearly full one the driver  *)
(* only pushes, and it varies the pushed item only in a shallow stack.    *)

Items == {<<"0", "1">>, <<"f", "f">>}
Filler == <<"0", "1">>
Indexes == 0..2

DriverActs == stack.length <= ShallowDepth \/ stack.length >= STACK_SIZE_LIMIT - 1

Called(name, arg, r, ret) ==
    /\ stack' = r.stack
    /\ last' = [NoCall EXCEPT !.call = name, !.arg = arg, !.outcome = r.err,
                              !.ret = ret, !.pre = TheVm]
    /\ UNCHANGED <<lexer, memory, storage, history, verbose, status, err,
                   overflow_checks>>

StackInit ==
    /\ lexer = Lexer_new(<<>>)
    /\ stack = EmptyStack
    /\ memory = <<>>
    /\ storage = EmptyStorage
    /\ history = <<>>
    /\ verbose = FALSE
    /\ status = "Ready"
    /\ err = NoError
    /\ overflow_checks = FALSE
    /\ last = NoCall

Push ==
    \E item \in Items :
        /\ stack.length > ShallowDepth => item = Filler
        /\ Called("push", item, Stack_push(stack, item),
                  <<Stack_push(stack, item).index>>)

Pop ==
    /\ DriverActs
    /\ Called("pop", <<>>, Stack_pop(stack),
              <<Stack_pop(stack).index, Stack_pop(stack).item>>)

Dup ==
    /\ DriverActs
    /\ \E n \in Indexes :
        Called("dup", n, Stack_dup(stack, n),
               <<Stack_dup(stack, n).index, Stack_dup(stack, n).item>>)

Swap ==
    /\ DriverActs
    /\ \E n \in Indexes, ub \in UBChoices :
        Called("swap", n, Stack_swap(stack, n, ub),
                  <<Stack_swap(stack, n, ub).indexes, Stack_swap(stack, n, ub).items>>)

StackNext == Push \/ Pop \/ Dup \/ Swap

StackSpec == StackInit /\ [][StackNext]_vars

-----------------------------------------------------------------------------
(* The memory on its own: any caller's mstore and mload on a Memory.  A   *)
(* call that panics ends the process.                                     *)

\* Locations word-aligned and not, the last location of usize, whose end
\* is past usize, and an address of more bytes than usize.
Locations == {0, 1, WordBytes, WordBytes + 2, USizeModulus - 1}
Addresses == { ToBE(n, WordBytes) : n \in Locations \cup {USizeModulus} }
Words == {ToBE(1, WordBytes), [i \in 1..WordBytes |-> 255]}

MemoryCalled(name, arg, r, ret) ==
    /\ memory' = r.heap
    /\ status' = IF r.abort THEN "Aborted" ELSE status
    /\ last' = [NoCall EXCEPT !.call = name, !.arg = arg, !.outcome = r.err,
                              !.ret = ret, !.pre = TheVm]
    /\ UNCHANGED <<lexer, stack, storage, history, verbose, err, overflow_checks>>

MemoryInit ==
    /\ lexer = Lexer_new(<<>>)
    /\ stack = EmptyStack
    /\ memory = <<>>
    /\ storage = EmptyStorage
    /\ history = <<>>
    /\ verbose = FALSE
    /\ status = "Ready"
    /\ err = NoError
    /\ overflow_checks \in BOOLEAN
    /\ last = NoCall

Mstore ==
    /\ status = "Ready"
    /\ \E location \in Addresses, data \in Words, ub \in UBChoices :
        MemoryCalled("mstore", <<location, data>>,
                     Memory_mstore(overflow_checks, memory, location, data, ub), <<>>)

Mload ==
    /\ status = "Ready"
    /\ \E location \in Addresses, ub \in UBChoices :
        MemoryCalled("mload", <<location>>,
                     Memory_mload(overflow_checks, memory, location, ub),
                     Memory_mload(overflow_checks, memory, location, ub).word)

LoadOnly ==
    /\ status = "Ready"
    /\ \E location \in Addresses, ub \in UBChoices :
        MemoryCalled("load_only", <<location>>,
                     Memory_load_only(memory, location, ub),
                     <<Memory_load_only(memory, location, ub).word,
                       Memory_load_only(memory, location, ub).until>>)

MemoryNext == Mstore \/ Mload \/ LoadOnly

MemorySpec == MemoryInit /\ [][MemoryNext]_vars

-----------------------------------------------------------------------------
(* The storage on its own: any caller's sstore, sload and size.           *)

Slots == { ToBE(n, WordBytes) : n \in {0, 1, U128Modulus} }
Values == { ToBE(n, WordBytes) : n \in {0, 1, 255} }

StorageCalled(name, arg, st, ret) ==
    /\ storage' = st
    /\ last' = [NoCall EXCEPT !.call = name, !.arg = arg, !.ret = ret, !.pre = TheVm]
    /\ UNCHANGED <<lexer, stack, memory, history, verbose, status, err,
                   overflow_checks>>

StorageInit ==
    /\ lexer = Lexer_new(<<>>)
    /\ stack = EmptyStack
    /\ memory = <<>>
    /\ storage = EmptyStorage
    /\ history = <<>>
    /\ verbose = FALSE
    /\ status = "Ready"
    /\ err = NoError
    /\ overflow_checks = FALSE
    /\ last = NoCall

Sstore ==
    \E slot \in Slots, value \in Values :
        StorageCalled("sstore", <<slot, value>>, Storage_sstore(storage, slot, value), <<>>)

Sload ==
    \E slot \in Slots :
        StorageCalled("sload", <<slot>>, storage, Storage_sload(storage, slot))

Size ==
    StorageCalled("size", <<>>, storage,
                  <<Storage_size(storage), Storage_is_empty(storage)>>)

StorageNext == Sstore \/ Sload \/ Size

StorageSpec == StorageInit /\ [][StorageNext]_vars

-----------------------------------------------------------------------------
(* The decoder on its own: from_str on the two digits of any byte.        *)

ByteValues == 0..255

DecodeInit ==
    /\ lexer = Lexer_new(<<>>)
    /\ stack = EmptyStack
    /\ memory = <<>>
    /\ storage = EmptyStorage
    /\ history = <<>>
    /\ verbose = FALSE
    /\ status = "Ready"
    /\ err = NoError
    /\ overflow_checks = FALSE
    /\ last = NoCall

Decode ==
    /\ \E b \in ByteValues :
        last' = [NoCall EXCEPT !.call = "from_str", !.arg = b,
                               !.ret = InstructionType_from_str(Byte2(b))]
    /\ UNCHANGED <<lexer, stack, memory, storage, history, verbose, status, err,
                   overflow_checks>>

DecodeSpec == DecodeInit /\ [][Decode]_vars

-----------------------------------------------------------------------------
(* The lexer on its own: Lexer::new on any text of the alphabet, then the  *)
(* calls of Vm::run, one read_char and next_byte after next_byte.  A call  *)
(* that panics ends the process; after an error the caller may go on.      *)

Alphabet == {"0", "1", "f", WS, NONHEX, CX, MB, NUL}
Texts == SeqsUpTo(Alphabet, MaxChars)

LexerInit ==
    \E text \in Texts :
        /\ lexer = Lexer_new(text)
        /\ stack = EmptyStack
        /\ memory = <<>>
        /\ storage = EmptyStorage
        /\ history = <<>>
        /\ verbose = FALSE
        /\ status = "Ready"
        /\ err = NoError
        /\ overflow_checks = FALSE
        /\ last = [NoCall EXCEPT !.call = "new", !.arg = text]

\* n is the number of next_byte calls made so far, this one included.
LexerCalled(name, n, r, ret) ==
    /\ lexer' = r.lexer
    /\ status' = IF r.abort THEN "Aborted" ELSE "Running"
    /\ last' = [NoCall EXCEPT !.call = name, !.arg = n, !.outcome = r.err,
                              !.ret = ret, !.pre = TheVm]
    /\ UNCHANGED <<stack, memory, storage, history, verbose, err, overflow_checks>>

ReadChar ==
    /\ status = "Ready"
    /\ LexerCalled("read_char", 0, read_char(lexer), <<>>)

NextByte ==
    /\ status = "Running"
    /\ lexer.read_position <= Len(lexer.bytecode) + MaxPast
    /\ LexerCalled("next_byte", last.arg + 1, next_byte(lexer), next_byte(lexer).token)

LexerNext == ReadChar \/ NextByte

LexerSpec == LexerInit /\ [][LexerNext]_vars

-----------------------------------------------------------------------------
(* The word on its own: the string of any word and its parse, and the     *)
(* parse of any text.  The functions keep no state, so a behaviour is one *)
(* call.                                                                   *)

WordValues == [1..WordBytes -> {0, 1, 171, 255}]
WordTexts ==
    SeqsUpTo({"0", "1", "f"}, 2 * WordBytes + 1)
        \cup { <<"0", CX>> \o t : t \in SeqsUpTo({"0", "f"}, 2) }
        \cup { <<NONHEX, "0">>, <<"0", "0", CX, "1">> }

WordInit ==
    /\ lexer = Lexer_new(<<>>)
    /\ stack = EmptyStack
    /\ memory = <<>>
    /\ storage = EmptyStorage
    /\ history = <<>>
    /\ verbose = FALSE
    /\ status = "Ready"
    /\ err = NoError
    /\ overflow_checks = FALSE
    /\ last = NoCall

\* w.to_string() and Bytes32::from_str of that string
Format ==
    /\ last.call = "none"
    /\ \E w \in WordValues :
        last' = [NoCall EXCEPT !.call = "to_string", !.arg = w,
                               !.ret = <<Bytes32_to_string(w),
                                         Bytes32_from_str(Bytes32_to_string(w))>>]
    /\ UNCHANGED <<lexer, stack, memory, storage, history, verbose, status, err,
                   overflow_checks>>

FromStr ==
    /\ last.call = "none"
    /\ \E s \in WordTexts :
        last' = [NoCall EXCEPT !.call = "from_str", !.arg = s,
                               !.outcome = Bytes32_from_str(s).err,
                               !.ret = Bytes32_from_str(s)]
    /\ UNCHANGED <<lexer, stack, memory, storage, history, verbose, status, err,
                   overflow_checks>>

\* The results of the LT, GT and EQ arms of Vm::run on the operands a and b:
\* item_1 < item_2, item_1 > item_2, item_1 == item_2.
ComparedWords == [1..WordBytes -> {0, 1}]

Compare ==
    /\ last.call = "none"
    /\ \E a \in ComparedWords, b \in ComparedWords :
        last' = [NoCall EXCEPT !.call = "compare", !.arg = <<a, b>>,
                               !.ret = <<Bytes32_lt(a, b), Bytes32_gt(a, b),
                                         Bytes32_eq(a, b)>>]
    /\ UNCHANGED <<lexer, stack, memory, storage, history, verbose, status, err,
                   overflow_checks>>

WordNext == Format \/ FromStr \/ Compare

WordSpec == WordInit /\ [][WordNext]_vars

-----------------------------------------------------------------------------
(* What the last operation started from *)

Pre == last.pre
PreHead == last.pre.stack.head
Stepped == last.call = "step"
Op == last.instruction.op

\* The operands an instruction finds: the top element a and the one below
\* it b, as the numbers their hex digits denote.
OperandA == HexValue(PreHead[1])
OperandB == HexValue(PreHead[2])
Rest == SubSeq(PreHead, 3, Len(PreHead))

InDomain(n) == n < U128Modulus

\* a to the power b fits the domain; then PowMod is the power itself.
TruePowFits(a, b) ==
    \/ a <= 1
    \/ b < 8 * U128Bytes /\ PowFits(a, b)

TruePow(a, b) ==
    IF a = 0 THEN (IF b = 0 THEN 1 ELSE 0)
    ELSE IF a = 1 THEN 1
    ELSE PowMod(a, b)

Arithmetic == {"ADD", "MUL", "SUB", "DIV", "MOD", "EXP"}

ResultFits(op, a, b) ==
    CASE op = "ADD" -> a + b < U128Modulus
      [] op = "MUL" -> MulFits(a, b)
      [] op = "SUB" -> a >= b
      [] op = "DIV" -> b # 0
      [] op = "MOD" -> b # 0
      [] op = "EXP" -> TruePowFits(a, b)

Result(op, a, b) ==
    CASE op = "ADD" -> a + b
      [] op = "MUL" -> MulMod(a, b)
      [] op = "SUB" -> a - b
      [] op = "DIV" -> a \div b
      [] op = "MOD" -> a % b
      [] op = "EXP" -> TruePow(a, b)

-----------------------------------------------------------------------------
(* Claims *)

\* C1: every run ends Halted or Faulted; no program text makes it end in
\* another way, such as the abort of the process.
C1_RunEndsHaltedOrFaulted ==
    /\ status \in {"Ready", "Running", "Halted", "Faulted"}
    /\ status = "Running" => ENABLED Next

\* C2: the stack depth, recorded and held, is at most 1024 in every state,
\* and a push on a stack of depth exactly 1024 returns StackOverflow.
C2_DepthAtMostLimit ==
    /\ stack.length <= STACK_SIZE_LIMIT
    /\ Len(stack.head) <= STACK_SIZE_LIMIT
    /\ (last.call = "push" /\ Pre.stack.length = STACK_SIZE_LIMIT)
          => last.outcome = "StackOverflow"

C2_Witness ==
    /\ last.call = "push"
    /\ Pre.stack.length = STACK_SIZE_LIMIT
    /\ Len(PreHead) = STACK_SIZE_LIMIT
    /\ last.outcome = "StackOverflow"

\* C3: a push or a dup that fails with StackOverflow leaves the stack with
\* the same elements in the same order as before it.
C3_OverflowLeavesStackUnchanged ==
    (last.call \in {"push", "dup"} /\ last.outcome = "StackOverflow")
        => stack = Pre.stack

\* C4: after a successful dup(n) the previous entries are all on the stack
\* in their order, below one new element equal to the entry n below the
\* old top.
C4_DupKeepsEntries ==
    (last.call = "dup" /\ last.outcome = "none")
        => stack.head = <<PreHead[last.arg + 1]>> \o PreHead

\* C5: on a stack [.., b, a] of values of the domain whose result fits it,
\* ADD, MUL, SUB, DIV, MOD and EXP replace a and b by a+b, a*b, a-b,
\* a div b, a mod b and a to the power b, and leave the rest as it is.
C5_ArithmeticResult ==
    (/\ Stepped
     /\ Op \in Arithmetic
     /\ Len(PreHead) >= 2
     /\ InDomain(OperandA) /\ InDomain(OperandB)
     /\ ResultFits(Op, OperandA, OperandB))
        => /\ status = "Running"
           /\ Len(stack.head) = Len(PreHead) - 1
           /\ HexValue(stack.head[1]) = Result(Op, OperandA, OperandB)
           /\ Tail(stack.head) = Rest

\* C6: an opcode of k operands on a stack of fewer than k elements faults
\* with ShallowStack naming it and leaves stack, memory, storage and trace
\* as they were.
C6_ShallowStackPopsNothing ==
    (/\ Stepped
     /\ \/ Op \in OneOperand /\ Len(PreHead) < 1
        \/ Op \in TwoOperands /\ Len(PreHead) < 2)
        => /\ status = "Faulted"
           /\ err.kind = "ShallowStack"
           /\ err.instruction = last.instruction
           /\ stack = Pre.stack
           /\ memory = Pre.memory
           /\ storage = Pre.storage
           /\ history = Pre.history

\* The two characters the next fetch reads are no byte of the opcode table.
MalformedAt(lx) ==
    LET f == next_byte(lx)
    IN  ~f.ok \/ ~InstructionType_from_str(f.token).ok

\* C7: construction rejects no text; a malformed, truncated or unknown byte
\* makes the run fault when the fetch reaches it, and stack, memory and
\* storage then hold what the instructions before it left.
C7_MalformedFaultsAtFetch ==
    /\ status = "Ready" => err = NoError
    /\ last.call = "run" => status = "Running"
    /\ (Stepped /\ MalformedAt(Pre.lexer))
          => /\ status = "Faulted"
             /\ stack = Pre.stack
             /\ memory = Pre.memory
             /\ storage = Pre.storage
    /\ last.call = "finish" => Pre.lexer.position >= Len(Pre.lexer.bytecode)

\* C8: ADD, MUL or EXP with a result beyond the domain, and SUB with a < b,
\* make run return the error ArithmeticOverflow.
C8_OverflowIsAnError ==
    (/\ Stepped
     /\ Op \in {"ADD", "MUL", "EXP", "SUB"}
     /\ Len(PreHead) >= 2
     /\ Bytes32_from_str(PreHead[1]).ok /\ Bytes32_from_str(PreHead[2]).ok
     /\ InDomain(OperandA) /\ InDomain(OperandB)
     /\ ~ResultFits(Op, OperandA, OperandB))
        => /\ status = "Faulted"
           /\ err.kind = "ArithmeticOverflow"

\* C9: DIV and MOD with the divisor b = 0 make run return the error
\* DivisionByZero, and push nothing.
C9_DivisionByZeroIsAnError ==
    (/\ Stepped
     /\ Op \in {"DIV", "MOD"}
     /\ Len(PreHead) >= 2
     /\ Bytes32_from_str(PreHead[1]).ok /\ Bytes32_from_str(PreHead[2]).ok
     /\ Bytes32_to_u128(Bytes32_from_str(PreHead[2]).word) = 0)
        => /\ status = "Faulted"
           /\ err.kind = "DivisionByZero"
           /\ stack.head = Rest

\* C10: SLOAD of a slot never written pushes a default word or makes run
\* return an error; it does not abort.
C10_UnsetSlotIsDefined ==
    (/\ Stepped
     /\ Op = "SLOAD"
     /\ Len(PreHead) >= 1
     /\ Bytes32_from_str(PreHead[1]).ok
     /\ Bytes32_from_str(PreHead[1]).word \notin DOMAIN Pre.storage)
        => \/ status = "Faulted"
           \/ status = "Running" /\ Len(stack.head) = Len(PreHead)

\* The cursor after the fetch of one byte and no more: two characters on,
\* with the character after them read ahead.
AfterOneFetch(lx) == next_byte(lx).lexer

C12_EndedRunChangesNothing ==
    [][(status = "Halted" \/ status = "Faulted")
          => (stack' = stack /\ memory' = memory /\ storage' = storage
              /\ history' = history /\ lexer' = lexer)]_vars

\* C13: the memory is empty at the start, and from one step of a run to
\* the next its length never decreases, whatever the instructions are.
C13_MemoryNeverShrinks ==
    /\ memory = <<>>
    /\ [][Len(memory') >= Len(memory)]_vars

\* A memory that was not empty has grown in an instruction.
C13_Witness ==
    /\ Stepped
    /\ Op \in {"MLOAD", "MSTORE"}
    /\ Len(Pre.memory) > 0
    /\ Len(memory) > Len(Pre.memory)

\* A call of the memory, its address as the number the whole word denotes,
\* and the bytes of a heap in the range of one word from an address.
MemoryCall == last.call \in {"mstore", "mload"}
Address == FromBE(last.arg[1])
InRange(i, a) == i > a /\ i <= a + WordBytes
HoldsAt(heap, a, w) ==
    /\ Len(heap) >= a + WordBytes
    /\ SubSeq(heap, a + 1, a + WordBytes) = w

\* C14: for every address and word, store(addr, w) followed by load(addr)
\* returns w, and after the store the bytes [addr, addr+32) of the memory
\* are the bytes of w.
C14_StoreThenLoad ==
    last.call = "mstore"
        => /\ last.outcome = "none"
           /\ HoldsAt(memory, Address, last.arg[2])
           /\ \A ub \in UBChoices :
                LET r == Memory_mload(overflow_checks, memory, last.arg[1], ub)
                IN  r.ok /\ r.word = last.arg[2]

\* C15: load and store grow the memory before they access it: the bytes
\* they access, [addr, addr+32), are below the length the memory has at the
\* access, and after the call the length is at least addr+32.
C15_GrowBeforeAccess ==
    (MemoryCall /\ last.outcome # "ArithmeticOverflowPanic")
        => /\ last.outcome = "none"
           /\ Address + WordBytes <= Len(memory)

\* C16: store(addr, w) changes no byte outside [addr, addr+32), load(addr)
\* changes no byte that existed, every byte added is zero unless the store
\* wrote it, and a load of a range that holds no written byte returns the
\* zero word.
C16_OnlyWritesChangeMemory ==
    MemoryCall
        => /\ Len(memory) >= Len(Pre.memory)
           /\ \A i \in 1..Len(memory) :
                (last.call = "mload" \/ ~InRange(i, Address))
                    => memory[i] = (IF i <= Len(Pre.memory) THEN Pre.memory[i] ELSE 0)
           /\ (/\ last.call = "mload"
               /\ last.outcome = "none"
               /\ \A i \in 1..Len(Pre.memory) : InRange(i, Address) => Pre.memory[i] = 0)
                  => last.ret = Zeros(WordBytes)

Absent == [some |-> FALSE, value |-> Zeros(WordBytes)]
Present(value) == [some |-> TRUE, value |-> value]

\* C17: get(slot) returns the value of the latest set on the slot, and the
\* absent indicator for a slot never set: a new storage holds no slot, a
\* set makes its slot hold its value and leaves every other slot, a get
\* returns what the slot holds and changes nothing; no entry is deleted,
\* and count() is the number of slots set.
C17_StorageKeepsLatest ==
    /\ last.call = "none" =>
          \A s \in Slots : Storage_sload(storage, s) = Absent
    /\ last.call = "sstore" =>
          /\ Storage_sload(storage, last.arg[1]) = Present(last.arg[2])
          /\ \A s \in Slots \ {last.arg[1]} :
                Storage_sload(storage, s) = Storage_sload(Pre.storage, s)
          /\ Storage_size(storage) =
                Storage_size(Pre.storage)
                    + (IF Storage_sload(Pre.storage, last.arg[1]).some THEN 0 ELSE 1)
    /\ last.call = "sload" =>
          /\ storage = Pre.storage
          /\ last.ret = Storage_sload(Pre.storage, last.arg[1])
    /\ last.call = "size" =>
          /\ storage = Pre.storage
          /\ last.ret[1] = Cardinality({s \in Slots : Storage_sload(storage, s).some})
          /\ last.ret[2] = (last.ret[1] = 0)

\* A set on a slot that held another value, with another slot set too.
C17_Witness ==
    /\ last.call = "sstore"
    /\ Storage_sload(Pre.storage, last.arg[1]).some
    /\ Storage_sload(Pre.storage, last.arg[1]).value # last.arg[2]
    /\ Storage_size(storage) >= 2

\* The word a stack element denotes: its digits, right-aligned.
WordOf(str) ==
    LET digits == IF Len(str) % 2 = 1 THEN <<"0">> \o str ELSE str
    IN  Zeros(WordBytes - Len(digits) \div 2) \o hex_decode_pairs(digits)

\* C18: SSTORE on a stack [.., value, slot] pops both, makes the slot hold
\* the value and leaves every other slot; SLOAD with a written slot on top
\* pops it and pushes the value that the slot holds.
C18_StoreThenLoadSlot ==
    /\ (Stepped /\ Op = "SSTORE" /\ Len(PreHead) >= 2)
          => /\ status = "Running"
             /\ stack.head = Rest
             /\ storage = Storage_sstore(Pre.storage, WordOf(PreHead[1]), WordOf(PreHead[2]))
    /\ (Stepped /\ Op = "SLOAD" /\ Len(PreHead) >= 1
            /\ WordOf(PreHead[1]) \in DOMAIN Pre.storage)
          => /\ status = "Running"
             /\ storage = Pre.storage
             /\ Len(stack.head) = Len(PreHead)
             /\ WordOf(stack.head[1]) = Pre.storage[WordOf(PreHead[1])]
             /\ Tail(stack.head) = Tail(PreHead)

\* The characters of the n bytes after the opcode at the cursor, and
\* whether the text holds them as hex digits.
ImmediateOf(lx, n) == SubSeq(lx.bytecode, lx.position + 3, lx.position + 2 + 2 * n)
HasImmediate(lx, n) ==
    /\ Len(lx.bytecode) >= lx.position + 2 + 2 * n
    /\ \A i \in 1..(2 * n) : is_ascii_hexdigit(lx.bytecode[lx.position + 2 + i])

\* C19: PUSH(n), 1 <= n <= 32, with n bytes after it takes exactly those
\* bytes as data, pushes one element of their value, and leaves the cursor
\* at the byte after them; PUSH(0) pushes zero and takes no byte.
C19_PushTakesImmediate ==
    (Stepped /\ Op = "PUSH" /\ last.instruction.size <= MaxPushSize
        /\ HasImmediate(Pre.lexer, last.instruction.size))
        => /\ status = "Running"
           /\ Len(stack.head) = Len(PreHead) + 1
           /\ Tail(stack.head) = PreHead
           /\ HexValue(stack.head[1])
                 = HexValue(ImmediateOf(Pre.lexer, last.instruction.size))
           /\ lexer.position = Pre.lexer.position + 2 + 2 * last.instruction.size

\* The opcode table of the specification: byte value to mnemonic.
OpcodeTable ==
    [b \in {0, 1, 2, 3, 4, 6, 10, 16, 17, 20, 21, 22, 23, 24, 25, 26, 32, 80, 81, 82, 84, 85} |->
        CASE b = 0 -> "STOP" [] b = 1 -> "ADD" [] b = 2 -> "MUL" [] b = 3 -> "SUB"
          [] b = 4 -> "DIV" [] b = 6 -> "MOD" [] b = 10 -> "EXP" [] b = 16 -> "LT"
          [] b = 17 -> "GT" [] b = 20 -> "EQ" [] b = 21 -> "ISZERO" [] b = 22 -> "AND"
          [] b = 23 -> "OR" [] b = 24 -> "XOR" [] b = 25 -> "NOT" [] b = 26 -> "BYTE"
          [] b = 32 -> "KECCAK256" [] b = 80 -> "POP" [] b = 81 -> "MLOAD"
          [] b = 82 -> "MSTORE" [] b = 84 -> "SLOAD" [] b = 85 -> "SSTORE"]

Decoded(op, size) == last.ret.ok /\ last.ret.instruction = Instr(op, size)

\* C20: for every byte value the decoder returns the mnemonic of the opcode
\* table; PUSH(b - 0x5f) for 0x5f..0x7f; DUP(b - 0x7f) for 0x80..0x8f;
\* SWAP(b - 0x8f) for 0x90..0x9f; and InvalidInstruction with the two
\* characters of the byte for every other value.
C20_DecoderTable ==
    last.call = "from_str" =>
        LET b == last.arg
        IN  IF b \in DOMAIN OpcodeTable THEN Decoded(OpcodeTable[b], 0)
            ELSE IF b >= 95 /\ b <= 127 THEN Decoded("PUSH", b - 95)
            ELSE IF b >= 128 /\ b <= 143 THEN Decoded("DUP", b - 127)
            ELSE IF b >= 144 /\ b <= 159 THEN Decoded("SWAP", b - 143)
            ELSE /\ ~last.ret.ok
                 /\ last.ret.err = "InvalidInstruction"
                 /\ last.ret.literal = Byte2(b)

\* The last byte of the PUSH range decoded as PUSH32.
C20_Witness ==
    /\ last.call = "from_str"
    /\ last.arg = 127
    /\ last.ret.ok
    /\ last.ret.instruction = Instr("PUSH", 32)

-----------------------------------------------------------------------------
(* DUP and SWAP opcodes, index validation, pop *)

\* C21: DUPk on a stack of at least k elements succeeds and pushes a copy
\* of the k-th element counted from the top starting at 1, so that DUP1
\* copies the top.
C21_DupCopiesKthFromTop ==
    (/\ Stepped
     /\ Op = "DUP"
     /\ last.instruction.size >= 1
     /\ last.instruction.size <= MaxDupSwapSize
     /\ Len(PreHead) >= last.instruction.size)
        => /\ status = "Running"
           /\ stack.head # <<>>
           /\ stack.head[1] = PreHead[last.instruction.size]

\* C22: swap(n) with 1 <= n < depth exchanges the top element with the one
\* n positions below it, leaves the other elements and the depth as they
\* were, and returns the bottom-indices [depth-1, depth-1-n] with the values
\* [old top, old n-th].
C22_SwapExchanges ==
    (/\ last.call = "swap"
     /\ last.arg >= 1
     /\ last.arg < Pre.stack.length)
        => /\ last.outcome = "none"
           /\ Len(PreHead) > last.arg
           /\ stack.head = [PreHead EXCEPT ![1] = PreHead[last.arg + 1],
                                           ![last.arg + 1] = PreHead[1]]
           /\ stack.length = Pre.stack.length
           /\ last.ret = << <<Pre.stack.length - 1,
                              Pre.stack.length - 1 - last.arg>>,
                            <<PreHead[1], PreHead[last.arg + 1]>> >>

C24_PopReturnsBottomIndex ==
    (last.call = "pop" /\ Pre.stack.length >= 1 /\ PreHead # <<>>)
        => /\ last.outcome = "none"
           /\ stack.head = Tail(PreHead)
           /\ last.ret = <<Pre.stack.length - 1, PreHead[1]>>

-----------------------------------------------------------------------------
(* Lexer *)

\* A text of 2k hex digits.
HexText(s) == Len(s) % 2 = 0 /\ \A i \in 1..Len(s) : s[i] \in HexDigits

\* C25: on an input of 2k hex digits the j-th next_byte call after the
\* first read_char, j <= k, returns the j-th two-character token and leaves
\* the cursor at 2j, two characters on; after the k-th call, and not before,
\* the lexer signals the end of input.
C25_TokensInOrder ==
    HexText(lexer.bytecode) =>
        /\ last.call = "read_char" =>
            /\ lexer.position = 0
            /\ lexer.ch = NUL <=> Len(lexer.bytecode) = 0
        /\ (last.call = "next_byte" /\ 2 * last.arg <= Len(lexer.bytecode)) =>
            /\ last.outcome = "none"
            /\ last.ret = SubSeq(lexer.bytecode, 2 * last.arg - 1, 2 * last.arg)
            /\ lexer.position = 2 * last.arg
            /\ lexer.position = Pre.lexer.position + 2
            /\ lexer.ch = NUL <=> 2 * last.arg = Len(lexer.bytecode)

\* The last of at least two tokens returned, and the end of input signalled.
C25_Witness ==
    /\ HexText(lexer.bytecode)
    /\ Len(lexer.bytecode) >= 4
    /\ last.call = "next_byte"
    /\ 2 * last.arg = Len(lexer.bytecode)
    /\ last.outcome = "none"
    /\ last.ret = SubSeq(lexer.bytecode, Len(lexer.bytecode) - 1, Len(lexer.bytecode))
    /\ lexer.ch = NUL

\* The character of the text at offset p, and whether p is past the text.
PastEnd(lx, p) == p >= Len(lx.bytecode)
CharAt(lx, p) == lx.bytecode[p + 1]

IsWhitespaceAt(lx, p) == ~PastEnd(lx, p) /\ is_whitespace(CharAt(lx, p))
IsHexDigitAt(lx, p) == ~PastEnd(lx, p) /\ is_ascii_hexdigit(CharAt(lx, p))

\* C26: next_byte on the two characters at the cursor fails with
\* HasWhitespace if either is whitespace, otherwise with EmptyChar if either
\* is past the end of the input, otherwise with InvalidNibble if either is
\* no hex digit, and returns no token in these cases.
C26_NextByteClassifies ==
    last.call = "next_byte" =>
        LET lx == Pre.lexer
            p == lx.position
        IN  IF IsWhitespaceAt(lx, p) \/ IsWhitespaceAt(lx, p + 1)
            THEN last.outcome = "HasWhitespace" /\ last.ret = <<>>
            ELSE IF PastEnd(lx, p) \/ PastEnd(lx, p + 1)
            THEN last.outcome = "EmptyChar" /\ last.ret = <<>>
            ELSE IF ~IsHexDigitAt(lx, p) \/ ~IsHexDigitAt(lx, p + 1)
            THEN last.outcome = "InvalidNibble" /\ last.ret = <<>>
            ELSE last.outcome = "none"

\* The hex digits H of a text that is H with an optional prefix "0x" and
\* optional whitespace around it.
Undecorated(text) ==
    LET t == trim(text)
    IN  IF starts_with_0x(t) THEN SubSeq(t, 3, Len(t)) ELSE t

IsDecoratedHex(text) ==
    \A i \in 1..Len(Undecorated(text)) : Undecorated(text)[i] \in HexDigits

\* C27: for a text of hex digits with an optional prefix "0x" and optional
\* whitespace before and after, the lexer's input after construction is the
\* hex digits alone, with the prefix or without it.
C27_InputIsTheHexDigits ==
    (last.call = "new" /\ IsDecoratedHex(last.arg))
        => lexer.bytecode = Undecorated(last.arg)

-----------------------------------------------------------------------------
(* Word *)

\* C28: the string of a word has two hex characters for each of its bytes
\* (64 in the source) and parses back to the word; the parse of a shorter
\* string of an even number of hex digits is the word whose last bytes are
\* the bytes the digits denote and whose bytes before them are zero.
C28_ParseRoundTrip ==
    /\ last.call = "to_string" =>
        /\ Len(last.ret[1]) = 2 * WordBytes
        /\ \A i \in 1..Len(last.ret[1]) : last.ret[1][i] \in HexDigits
        /\ last.ret[2].ok
        /\ last.ret[2].word = last.arg
    /\ (last.call = "from_str" /\ HexText(last.arg)
            /\ Len(last.arg) < 2 * WordBytes) =>
        LET n == Len(last.arg) \div 2
            w == last.ret.word
        IN  /\ last.ret.ok
            /\ Len(w) = WordBytes
            /\ \A i \in 1..(WordBytes - n) : w[i] = 0
            /\ \A i \in 1..n :
                w[WordBytes - n + i] =
                    16 * HexVal(last.arg[2 * i - 1]) + HexVal(last.arg[2 * i])

\* The string "ff" parsed to the word that ends with the byte 0xff after
\* zero bytes.
C28_Witness ==
    /\ last.call = "from_str"
    /\ last.arg = <<"f", "f">>
    /\ last.ret.ok
    /\ last.ret.word = Zeros(WordBytes - 1) \o <<255>>

-----------------------------------------------------------------------------
(* Comparison and NOT *)

\* x below y as 256-bit numbers: the first byte that differs is smaller.
WordLess(x, y) ==
    \E i \in 1..WordBytes :
        /\ x[i] < y[i]
        /\ \A j \in 1..(i - 1) : x[j] = y[j]

\* An element as a PUSH with immediate bytes leaves it: whole bytes.
WholeBytes(str) == str # <<>> /\ Len(str) % 2 = 0

Truth(b) == ToBE(IF b THEN 1 ELSE 0, WordBytes)

Compared(op, a, b) ==
    CASE op = "LT" -> WordLess(a, b)
      [] op = "GT" -> WordLess(b, a)
      [] op = "EQ" -> a = b

\* C29: LT, GT and EQ on a stack [.., b, a] pop both and push the word 1
\* when a < b, a > b, a = b as 256-bit numbers and the word 0 otherwise;
\* ISZERO pops a and pushes 1 when a is the zero word, else 0.  Stated for
\* operands of whole bytes.
C29_ComparisonResult ==
    /\ (/\ Stepped
        /\ Op \in {"LT", "GT", "EQ"}
        /\ Len(PreHead) >= 2
        /\ WholeBytes(PreHead[1])
        /\ WholeBytes(PreHead[2]))
          => /\ status = "Running"
             /\ Len(stack.head) = Len(PreHead) - 1
             /\ WordOf(stack.head[1]) =
                    Truth(Compared(Op, WordOf(PreHead[1]), WordOf(PreHead[2])))
             /\ Tail(stack.head) = Rest
    /\ (/\ Stepped
        /\ Op = "ISZERO"
        /\ Len(PreHead) >= 1
        /\ WholeBytes(PreHead[1]))
          => /\ status = "Running"
             /\ Len(stack.head) = Len(PreHead)
             /\ WordOf(stack.head[1]) = Truth(WordOf(PreHead[1]) = Zeros(WordBytes))
             /\ Tail(stack.head) = Tail(PreHead)

\* Every bit of the word inverted.
Complement(w) == [i \in 1..WordBytes |-> 255 - w[i]]

\* C30: NOT pops one operand and pushes its bitwise complement, so that NOT
\* of the zero word is the word of all ones.  Stated for an operand of whole
\* bytes.
C30_NotIsComplement ==
    (/\ Stepped
     /\ Op = "NOT"
     /\ Len(PreHead) >= 1
     /\ WholeBytes(PreHead[1]))
        => /\ status = "Running"
           /\ Len(stack.head) = Len(PreHead)
           /\ WordOf(stack.head[1]) = Complement(WordOf(PreHead[1]))
           /\ Tail(stack.head) = Tail(PreHead)

-----------------------------------------------------------------------------
(* BYTE, KECCAK256 *)

\* The index a word denotes when it is below the number of bytes of a word
\* (32 in the source).
IsByteIndex(w) ==
    /\ SubSeq(w, 1, WordBytes - 1) = Zeros(WordBytes - 1)
    /\ w[WordBytes] < WordBytes

\* C31: BYTE on a stack [.., x, i] pops both and pushes byte number i of x
\* counted from the most significant byte when i is below the number of
\* bytes of a word, and 0 for every greater i; it never faults or aborts.
\* Stated for operands of whole bytes.
C31_ByteOfWord ==
    (/\ Stepped
     /\ Op = "BYTE"
     /\ Len(PreHead) >= 2
     /\ WholeBytes(PreHead[1])
     /\ WholeBytes(PreHead[2]))
        => LET i == WordOf(PreHead[1])
               x == WordOf(PreHead[2])
           IN  /\ status = "Running"
               /\ Len(stack.head) = Len(PreHead) - 1
               /\ WordOf(stack.head[1]) =
                    IF IsByteIndex(i)
                    THEN Zeros(WordBytes - 1) \o <<x[i[WordBytes] + 1]>>
                    ELSE Zeros(WordBytes)
               /\ Tail(stack.head) = Rest

\* C32: KECCAK256 pops one operand and pushes the digest of the bytes of its
\* word without the leading zero bytes (of no bytes for the zero word); the
\* depth of the stack stays as it was.
C32_KeccakOfTrimmedBytes ==
    (Stepped /\ Op = "KECCAK256" /\ Len(PreHead) >= 1)
        => /\ status = "Running"
           /\ Len(stack.head) = Len(PreHead)
           /\ WordOf(stack.head[1]) =
                Keccak256(TrimLeadingZeroBytes(WordOf(PreHead[1])))
           /\ Tail(stack.head) = Tail(PreHead)

-----------------------------------------------------------------------------
(* Trace *)

\* The instruction has got its operands: the stack held them and each is a
\* string of whole bytes.
GotOperands ==
    \/ /\ Op \in OneOperand
       /\ Len(PreHead) >= 1
       /\ WholeBytes(PreHead[1])
    \/ /\ Op \in TwoOperands
       /\ Len(PreHead) >= 2
       /\ WholeBytes(PreHead[1])
       /\ WholeBytes(PreHead[2])

\* What an entry records, its indices apart.
Recorded(e) == <<e.component, e.instruction, e.item_1, e.item_2>>

\* The entries of the instruction that has got its operands a (top) and b.
StackEntry ==
    IF Op \in OneOperand
    THEN <<"Stack", last.instruction, WordOf(PreHead[1]), NoWord>>
    ELSE <<"Stack", last.instruction, WordOf(PreHead[1]), WordOf(PreHead[2])>>

StoreEntry ==
    IF Op = "MSTORE"
    THEN << <<"Memory", NoInstr, WordOf(PreHead[1]), WordOf(PreHead[2])>> >>
    ELSE IF Op = "SSTORE"
    THEN << <<"Storage", NoInstr, WordOf(PreHead[1]), WordOf(PreHead[2])>> >>
    ELSE <<>>

Appended == [i \in 1..(Len(history) - Len(Pre.history)) |->
                Recorded(history[Len(Pre.history) + i])]

\* C33: with tracing enabled an instruction that has got its operands
\* appends one Stack entry to the trace, followed by one Memory entry
\* (address a, value b) for MSTORE or one Storage entry (slot a, value b)
\* for SSTORE; nothing else adds an entry, and the entries before stay as
\* they were and where they were; with tracing disabled the trace is empty.
C33_TraceAppends ==
    /\ ~verbose => history = <<>>
    /\ last.call # "none" =>
        /\ Len(history) >= Len(Pre.history)
        /\ SubSeq(history, 1, Len(Pre.history)) = Pre.history
        /\ Appended = IF verbose /\ Stepped /\ GotOperands
                      THEN <<StackEntry>> \o StoreEntry
                      ELSE <<>>

\* A traced SSTORE after a traced MSTORE: the Stack and Storage entries of
\* the one follow the Stack and Memory entries of the other.
C33_Witness ==
    /\ verbose
    /\ Stepped
    /\ Op = "SSTORE"
    /\ Len(history) = 4
    /\ history[1].component = "Stack"
    /\ history[2].component = "Memory"
    /\ history[3].component = "Stack"
    /\ history[4].component = "Storage"
    /\ history[4].item_1 = WordOf(PreHead[1])
    /\ history[4].item_2 = WordOf(PreHead[2])

-----------------------------------------------------------------------------
(* Stack elements, length, trichotomy, sizes *)

\* C34: in every state each element of the stack parses back to a word, so
\* that an opcode that pops a pushed result gets the word of that result.
C34_ElementsParse ==
    \A i \in 1..Len(stack.head) : Bytes32_from_str(stack.head[i]).ok

\* C35: after any sequence of push, pop, dup and swap the recorded length
\* of the stack is the number of elements reached from its head, so that
\* is_empty() holds exactly when the length is 0.
C35_LengthIsNodeCount ==
    /\ stack.length = Len(stack.head)
    /\ Stack_is_empty(stack) <=> stack.length = 0

\* C36: for any two words a and b exactly one of LT, GT and EQ on (a, b)
\* gives 1, also when a and b differ only above their low 16 bytes.
C36_Trichotomy ==
    last.call = "compare" =>
        \/ last.ret = <<TRUE, FALSE, FALSE>>
        \/ last.ret = <<FALSE, TRUE, FALSE>>
        \/ last.ret = <<FALSE, FALSE, TRUE>>

\* C37: no run ends with IncompatibleSize: every decoded PUSH has a size of
\* 0..32 and every decoded DUP and SWAP an offset of 1..16, so that the size
\* tests of the engine never fire.
C37_SizesInRange ==
    /\ err.kind # "IncompatibleSize"
    /\ (Stepped /\ Op = "PUSH") =>
            (last.instruction.size >= 0 /\ last.instruction.size <= MaxPushSize)
    /\ (Stepped /\ Op \in {"DUP", "SWAP"}) =>
            (last.instruction.size >= 1 /\ last.instruction.size <= MaxDupSwapSize)

\* The PUSH of the greatest size executed: its bytes are on the stack.
C37_Witness ==
    /\ Stepped
    /\ Op = "PUSH"
    /\ last.instruction.size = MaxPushSize
    /\ status = "Running"
    /\ Len(stack.head) = 1
    /\ Len(stack.head[1]) = 2 * MaxPushSize

-----------------------------------------------------------------------------
(* load_only, PUSH at the end of the program *)

\* C38: load_only leaves the memory as it is and reads only bytes below the
\* current length of the memory, for every address.
C38_LoadOnlyWithinMemory ==
    last.call = "load_only" =>
        /\ memory = Pre.memory
        /\ status # "Aborted"
        /\ last.ret[2] <= Len(Pre.memory)

\* The whole bytes of hex digits in the text from offset p on, up to the
\* first character that ends them.
RECURSIVE FullBytesFrom(_, _)
FullBytesFrom(lx, p) ==
    IF IsHexDigitAt(lx, p) /\ IsHexDigitAt(lx, p + 1)
    THEN 1 + FullBytesFrom(lx, p + 2)
    ELSE 0

\* C39: PUSH(n) fetched when fewer than n whole bytes follow it faults with
\* a lexer error and pushes nothing: the stack is as it was before the PUSH
\* was fetched.
C39_ShortPushFaults ==
    (/\ Stepped
     /\ Op = "PUSH"
     /\ last.instruction.size <= MaxPushSize
     /\ FullBytesFrom(Pre.lexer, Pre.lexer.position + 2) < last.instruction.size)
        => /\ status = "Faulted"
           /\ err.kind \in {"EmptyChar", "HasWhitespace", "InvalidNibble"}
           /\ stack = Pre.stack

=============================================================================
